---- MODULE Spec2Model ----
(***************************************************************************)
(* kuzu_graph_builder: cli.main -> ingest.process_directory ->             *)
(* schema.define_schema, utils.calculate_sha256.                           *)
(*                                                                         *)
(* The filesystem and the graph engine are the environment.  A path is a   *)
(* sequence of name segments; the engine is a committed graph `db` and the *)
(* working graph `tx` of the one write transaction.  Every statement sent  *)
(* to the engine either is accepted or raises.                             *)
(***************************************************************************)
EXTENDS Integers, Sequences, FiniteSets, TLC

\* ---- bounds ----
MaxCommits == 2
MaxContent == 2
MaxEdits == 1

\* ---- the modelled directory trees ----
RootPath == <<"r">>
SubRoot == <<"r", "d">>
Roots == {RootPath, SubRoot}
FileA == <<"r", "a.py">>
FileB == <<"r", "d", "b.txt">>
DirE == <<"r", "d", "e">>
Paths == {FileA, SubRoot, FileB, DirE}
NoPath == <<>>

\* Path.parent
Parent(p) == SubSeq(p, 1, Len(p) - 1)

\* Path.name
Name(p) == p[Len(p)]

\* p lies strictly below root (what root.rglob('*') can yield)
IsBelow(p, root) == Len(p) > Len(root) /\ SubSeq(p, 1, Len(root)) = root

\* len(item_path.relative_to(repo_root_path).parts)
Depth(p, root) == Len(p) - Len(root)

\* item_path.suffix.lstrip('.')
Lang(p) ==
  CASE Name(p) = "a.py" -> "py"
    [] Name(p) = "b.txt" -> "txt"
    [] OTHER -> ""

Contents == 1..MaxContent

\* hashlib.sha256(bytes).hexdigest(): one digest per content, never empty
Sha256(c) == <<"sha", c>>

\* st_size of a file holding content c
SizeOf(c) == 10 * c

\* ---- filesystem entries ----
Faults == {"none", "hash", "stat"}
FileEntries == [kind : {"file"}, content : Contents, fault : Faults]
Absent == [kind |-> "absent", content |-> 0, fault |-> "none"]
Dir == [kind |-> "dir", content |-> 0, fault |-> "none"]
Symlink == [kind |-> "symlink", content |-> 0, fault |-> "none"]

\* FileA is the file whose reads can fail; FileB is always readable
EntriesOf(p) ==
  CASE p = FileA -> FileEntries \cup {Absent, Symlink}
    [] p = FileB -> {e \in FileEntries : e.fault = "none"} \cup {Absent}
    [] p = SubRoot -> {Absent, Dir, Symlink}
    [] OTHER -> {Absent, Dir}

\* an entry exists only inside a real directory
WellFormed(f) ==
  \A p \in Paths :
    (f[p].kind # "absent" /\ Parent(p) # RootPath) => f[Parent(p)].kind = "dir"

\* the tree before the first run: every modelled path exists and is readable
InitialTree ==
  [p \in Paths |->
     IF p \in {FileA, FileB} THEN [kind |-> "file", content |-> 1, fault |-> "none"]
     ELSE Dir]


\* ---- the graph engine ----
Ddl(kind, name, from, to) == [kind |-> kind, name |-> name, from |-> from, to |-> to]

\* the statements of define_schema, in source order
SchemaStatements ==
  << Ddl("node", "Repository", "", ""),
     Ddl("index", "Repository", "root_path", ""),
     Ddl("node", "Folder", "", ""),
     Ddl("index", "Folder", "path", ""),
     Ddl("node", "File", "", ""),
     Ddl("index", "File", "path", ""),
     Ddl("index", "File", "sha256", ""),
     Ddl("node", "ModuleClass", "", ""),
     Ddl("node", "Function", "", ""),
     Ddl("node", "TestCase", "", ""),
     Ddl("node", "Error", "", ""),
     Ddl("index", "Error", "stack_hash", ""),
     Ddl("node", "Goal", "", ""),
     Ddl("index", "Goal", "title", ""),
     Ddl("node", "Requirement", "", ""),
     Ddl("index", "Requirement", "req_id", ""),
     Ddl("node", "Note", "", ""),
     Ddl("rel", "CONTAINS", "Repository", "Folder"),
     Ddl("rel", "CONTAINS", "Folder", "Folder"),
     Ddl("rel", "CONTAINS", "Folder", "File"),
     Ddl("rel", "CONTAINS", "File", "ModuleClass"),
     Ddl("rel", "CONTAINS", "ModuleClass", "Function"),
     Ddl("rel", "CONTAINS", "File", "Function"),
     Ddl("rel", "CALLS", "Function", "Function"),
     Ddl("rel", "IMPORTS", "File", "File"),
     Ddl("rel", "TESTS", "TestCase", "Function"),
     Ddl("rel", "ERROR_IN", "Error", "Function"),
     Ddl("rel", "SATISFIED_BY", "Requirement", "Function"),
     Ddl("rel", "SATISFIED_BY", "Requirement", "ModuleClass"),
     Ddl("rel", "TRACKED_BY", "Goal", "Requirement"),
     Ddl("rel", "TRACKED_BY", "Goal", "Note"),
     Ddl("rel", "REFERS_TO", "Note", "Function"),
     Ddl("rel", "REFERS_TO", "Note", "File") >>

EmptySchema == [node_tables |-> {}, rel_tables |-> {}, indexes |-> {}]

\* CREATE ... IF NOT EXISTS: nothing happens when the name is taken
ExecDdl(sch, st) ==
  CASE st.kind = "node" ->
         IF st.name \in sch.node_tables THEN sch
         ELSE [sch EXCEPT !.node_tables = @ \cup {st.name}]
    [] st.kind = "index" ->
         [sch EXCEPT !.indexes = @ \cup {<<st.name, st.from>>}]
    [] OTHER ->
         IF \E r \in sch.rel_tables : r.name = st.name THEN sch
         ELSE [sch EXCEPT !.rel_tables =
                 @ \cup {[name |-> st.name, from |-> st.from, to |-> st.to]}]

RECURSIVE ExecAll(_, _, _)
ExecAll(sch, sts, k) ==
  IF k > Len(sts) THEN sch ELSE ExecAll(ExecDdl(sch, sts[k]), sts, k + 1)

\* mutant: every table is dropped and created again, its rows go with it
define_schema_Recreate(g) ==
  [g EXCEPT !.repos = {}, !.folders = {}, !.files = {}, !.edges = {},
            !.schema = ExecAll(EmptySchema, SchemaStatements, 1)]

\* define_schema(conn) when every statement is accepted
define_schema(g) == [g EXCEPT !.schema = ExecAll(g.schema, SchemaStatements, 1)]

EmptyGraph ==
  [repos |-> {}, folders |-> {}, files |-> {}, edges |-> {},
   schema |-> EmptySchema,
   serial |-> [Repository |-> 0, Folder |-> 0, File |-> 0, CONTAINS |-> 0]]

\* mutant: CREATE instead of MERGE, a Repository node is added on every run
MergeRepository_AlwaysCreate(g, path, name) ==
  [g EXCEPT
     !.repos = @ \cup {[repo_id |-> g.serial.Repository,
                        root_path |-> path, name |-> name]},
     !.serial.Repository = @ + 1]

\* MERGE (r:Repository {root_path: $path}) ON CREATE SET r.name = $name
\*                                         ON MATCH SET r.name = $name
MergeRepository(g, path, name) ==
  IF \E r \in g.repos : r.root_path = path
  THEN [g EXCEPT !.repos =
          {IF r.root_path = path THEN [r EXCEPT !.name = name] ELSE r : r \in @}]
  ELSE [g EXCEPT
          !.repos = @ \cup {[repo_id |-> g.serial.Repository,
                             root_path |-> path, name |-> name]},
          !.serial.Repository = @ + 1]

\* the rows of RETURN r.repo_id AS id
RepositoryIds(g, path) == {r.repo_id : r \in {x \in g.repos : x.root_path = path}}

\* mutant: CREATE instead of MERGE, a Folder node is added on every run
MergeFolder_AlwaysCreate(g, fd) ==
  [g EXCEPT
     !.folders = @ \cup {[folder_id |-> g.serial.Folder, path |-> fd.path,
                          depth |-> fd.depth, repo_id |-> fd.repo_id]},
     !.serial.Folder = @ + 1]

\* mutant: MERGE with ON CREATE SET only, a matched Folder keeps what it had
MergeFolder_NoRefresh(g, fd) ==
  IF \E n \in g.folders : n.path = fd.path
  THEN g
  ELSE [g EXCEPT
          !.folders = @ \cup {[folder_id |-> g.serial.Folder, path |-> fd.path,
                               depth |-> fd.depth, repo_id |-> fd.repo_id]},
          !.serial.Folder = @ + 1]

\* MERGE (f:Folder {path: $path}) ON CREATE SET ... ON MATCH SET f.depth, f.repo_id
MergeFolder(g, fd) ==
  IF \E n \in g.folders : n.path = fd.path
  THEN [g EXCEPT !.folders =
          {IF n.path = fd.path
           THEN [n EXCEPT !.depth = fd.depth, !.repo_id = fd.repo_id]
           ELSE n : n \in @}]
  ELSE [g EXCEPT
          !.folders = @ \cup {[folder_id |-> g.serial.Folder, path |-> fd.path,
                               depth |-> fd.depth, repo_id |-> fd.repo_id]},
          !.serial.Folder = @ + 1]

\* MATCH (f:File {path: $path}) RETURN f.sha256 AS sha
ExistingHashes(g, path) == {n.sha256 : n \in {x \in g.files : x.path = path}}

\* mutant: the File node is deleted and created again when its path matches
MergeFile_Replace(g, fd) ==
  [g EXCEPT
     !.files = {n \in @ : n.path # fd.path}
                 \cup {[file_id |-> g.serial.File, path |-> fd.path,
                        lang |-> fd.lang, sha256 |-> fd.sha256,
                        size |-> fd.size, repo_id |-> fd.repo_id]},
     !.serial.File = @ + 1]

\* MERGE (f:File {path: $path}) ON CREATE SET ... ON MATCH SET lang, sha256, size, repo_id
MergeFile(g, fd) ==
  IF \E n \in g.files : n.path = fd.path
  THEN [g EXCEPT !.files =
          {IF n.path = fd.path
           THEN [n EXCEPT !.lang = fd.lang, !.sha256 = fd.sha256,
                          !.size = fd.size, !.repo_id = fd.repo_id]
           ELSE n : n \in @}]
  ELSE [g EXCEPT
          !.files = @ \cup {[file_id |-> g.serial.File, path |-> fd.path,
                             lang |-> fd.lang, sha256 |-> fd.sha256,
                             size |-> fd.size, repo_id |-> fd.repo_id]},
          !.serial.File = @ + 1]

\* a node reference: its table and its SERIAL key
Ref(label, id) == <<label, id>>

\* the nodes MATCH (x:label {key: $path}) binds
MatchNodes(g, label, path) ==
  CASE label = "Repository" ->
         {Ref(label, r.repo_id) : r \in {x \in g.repos : x.root_path = path}}
    [] label = "Folder" ->
         {Ref(label, n.folder_id) : n \in {x \in g.folders : x.path = path}}
    [] OTHER ->
         {Ref(label, n.file_id) : n \in {x \in g.files : x.path = path}}

\* mutant: CREATE instead of MERGE, an edge is added on every run
MergeEdge_AlwaysCreate(g, src, dst) ==
  [g EXCEPT
     !.edges = @ \cup {[rel_id |-> g.serial.CONTAINS, src |-> src, dst |-> dst]},
     !.serial.CONTAINS = @ + 1]

\* MERGE (a)-[:CONTAINS]->(b) for one bound pair: create the edge unless it exists
MergeEdge(g, src, dst) ==
  IF \E e \in g.edges : e.src = src /\ e.dst = dst THEN g
  ELSE [g EXCEPT
          !.edges = @ \cup {[rel_id |-> g.serial.CONTAINS, src |-> src, dst |-> dst]},
          !.serial.CONTAINS = @ + 1]

RECURSIVE MergeEdges(_, _)
MergeEdges(g, pairs) ==
  IF pairs = {} THEN g
  ELSE LET pr == CHOOSE x \in pairs : TRUE
       IN MergeEdges(MergeEdge(g, pr[1], pr[2]), pairs \ {pr})

\* MATCH (parent:pl {..: $parent_path}), (child:cl {path: $child_path})
\* MERGE (parent)-[:CONTAINS]->(child)
MergeContains(g, pl, parent_path, cl, child_path) ==
  MergeEdges(g, MatchNodes(g, pl, parent_path) \X MatchNodes(g, cl, child_path))


\* ---- the scan of process_directory ----
\* the orders in which rglob may yield the entries: parents first, children first
ScanOrders == { <<FileA, SubRoot, FileB, DirE>>, <<DirE, FileB, SubRoot, FileA>> }

\* mutant: glob('*') instead of rglob('*'), only the root's own entries
all_paths_TopLevel(f, root, order) ==
  LET Yielded(p) == Parent(p) = root /\ f[p].kind # "absent"
  IN SelectSeq(order, Yielded)

\* list(repo_root_path.rglob('*')): every existing entry below the root; a
\* symbolic link is yielded itself and never descended into
all_paths(f, root, order) ==
  LET Yielded(p) == IsBelow(p, root) /\ f[p].kind # "absent"
  IN SelectSeq(order, Yielded)

EmptyScan ==
  [folders |-> <<>>, files |-> <<>>, folder_rels |-> <<>>, file_rels |-> <<>>,
   classified |-> {}, stat_calls |-> {}, hash_calls |-> {},
   skipped |-> {}, os_errors |-> {}, hash_errors |-> {}]

\* mutant: the digest of what was read so far instead of None
calculate_sha256_Partial(e) == Sha256(e.content)

\* calculate_sha256(filepath): the hex digest, or None when reading raises IOError
calculate_sha256(e) == IF e.fault = "hash" THEN "None" ELSE Sha256(e.content)

\* mutant: no is_symlink() check, is_file() follows the link
CollectEntry_FollowLinks(acc, p, f, root, repo_id) ==
  IF f[p].kind = "dir" THEN
    [acc EXCEPT
       !.classified = @ \cup {p},
       !.folders = Append(@, [path |-> p, depth |-> Depth(p, root), repo_id |-> repo_id]),
       !.folder_rels = Append(@, IF Parent(p) = root
                                 THEN <<root, p, "repo_folder">>
                                 ELSE <<Parent(p), p, "folder_folder">>)]
  ELSE
  [acc EXCEPT
     !.classified = @ \cup {p}, !.stat_calls = @ \cup {p}, !.hash_calls = @ \cup {p},
     !.files = Append(@, [path |-> p, lang |-> Lang(p), sha256 |-> Sha256(f[p].content),
                          size |-> SizeOf(f[p].content), repo_id |-> repo_id]),
     !.file_rels = Append(@, <<Parent(p), p>>)]

\* the collecting loop without the per-entry except clause around stat():
\* the entry is recorded with size 0
CollectEntry_StatUnguarded(acc, p, f, root, repo_id) ==
  LET e == f[p] IN
  IF e.kind = "symlink" THEN [acc EXCEPT !.skipped = @ \cup {p}]
  ELSE IF e.kind = "dir" THEN
    [acc EXCEPT
       !.classified = @ \cup {p},
       !.folders = Append(@, [path |-> p, depth |-> Depth(p, root), repo_id |-> repo_id]),
       !.folder_rels = Append(@, IF Parent(p) = root
                                 THEN <<root, p, "repo_folder">>
                                 ELSE <<Parent(p), p, "folder_folder">>)]
  ELSE IF calculate_sha256(e) = "None" THEN
    [acc EXCEPT !.classified = @ \cup {p}, !.stat_calls = @ \cup {p},
                !.hash_calls = @ \cup {p}, !.hash_errors = @ \cup {p}]
  ELSE
    [acc EXCEPT
       !.classified = @ \cup {p}, !.stat_calls = @ \cup {p}, !.hash_calls = @ \cup {p},
       !.os_errors = IF e.fault = "stat" THEN @ \cup {p} ELSE @,
       !.files = Append(@, [path |-> p, lang |-> Lang(p), sha256 |-> calculate_sha256(e),
                            size |-> IF e.fault = "stat" THEN 0 ELSE SizeOf(e.content),
                            repo_id |-> repo_id]),
       !.file_rels = Append(@, <<Parent(p), p>>)]

\* mutant: a folder edge is only recorded when the parent was seen before
\* the child
CollectEntry_ParentFirst(acc, p, f, root, repo_id) ==
  LET e == f[p] IN
  IF e.kind = "symlink" THEN [acc EXCEPT !.skipped = @ \cup {p}]
  ELSE IF e.kind = "dir" THEN
    [acc EXCEPT
       !.classified = @ \cup {p},
       !.folders = Append(@, [path |-> p, depth |-> Depth(p, root), repo_id |-> repo_id]),
       !.folder_rels = IF Parent(p) = root
                       THEN Append(@, <<root, p, "repo_folder">>)
                       ELSE IF Parent(p) \in acc.classified
                       THEN Append(@, <<Parent(p), p, "folder_folder">>)
                       ELSE @]
  ELSE IF e.fault = "stat" THEN
    [acc EXCEPT !.classified = @ \cup {p}, !.stat_calls = @ \cup {p},
                !.os_errors = @ \cup {p}]
  ELSE IF calculate_sha256(e) = "None" THEN
    [acc EXCEPT !.classified = @ \cup {p}, !.stat_calls = @ \cup {p},
                !.hash_calls = @ \cup {p}, !.hash_errors = @ \cup {p}]
  ELSE
    [acc EXCEPT
       !.classified = @ \cup {p}, !.stat_calls = @ \cup {p}, !.hash_calls = @ \cup {p},
       !.files = Append(@, [path |-> p, lang |-> Lang(p), sha256 |-> calculate_sha256(e),
                            size |-> SizeOf(e.content), repo_id |-> repo_id]),
       !.file_rels = Append(@, <<Parent(p), p>>)]

\* the body of the collecting loop for one entry
CollectEntry(acc, p, f, root, repo_id) ==
  LET e == f[p] IN
  IF e.kind = "symlink" THEN [acc EXCEPT !.skipped = @ \cup {p}]
  ELSE IF e.kind = "dir" THEN
    [acc EXCEPT
       !.classified = @ \cup {p},
       !.folders = Append(@, [path |-> p, depth |-> Depth(p, root), repo_id |-> repo_id]),
       !.folder_rels = Append(@, IF Parent(p) = root
                                 THEN <<root, p, "repo_folder">>
                                 ELSE <<Parent(p), p, "folder_folder">>)]
  ELSE IF e.fault = "stat" THEN
    [acc EXCEPT !.classified = @ \cup {p}, !.stat_calls = @ \cup {p},
                !.os_errors = @ \cup {p}]
  ELSE IF calculate_sha256(e) = "None" THEN
    [acc EXCEPT !.classified = @ \cup {p}, !.stat_calls = @ \cup {p},
                !.hash_calls = @ \cup {p}, !.hash_errors = @ \cup {p}]
  ELSE
    [acc EXCEPT
       !.classified = @ \cup {p}, !.stat_calls = @ \cup {p}, !.hash_calls = @ \cup {p},
       !.files = Append(@, [path |-> p, lang |-> Lang(p), sha256 |-> calculate_sha256(e),
                            size |-> SizeOf(e.content), repo_id |-> repo_id]),
       !.file_rels = Append(@, <<Parent(p), p>>)]

RECURSIVE Collect(_, _, _, _, _, _)
Collect(acc, items, k, f, root, repo_id) ==
  IF k > Len(items) THEN acc
  ELSE Collect(CollectEntry(acc, items[k], f, root, repo_id), items, k + 1, f, root, repo_id)


\* ---- state ----
VARIABLES
  fs,                  \* the directory tree: path -> entry
  edits,               \* changes made to the tree so far
  commits,             \* runs that committed so far
  db,                  \* the committed graph
  tx,                  \* the graph as the open write transaction sees it
  pc,                  \* position of the run inside main / process_directory
  repo_root_path,      \* Path(repo_root_path_str).resolve()
  repo_internal_id,    \* repo_id_result['id'][0]
  folders_to_add, files_to_add, folder_rels_to_add, file_rels_to_add,
  files_to_parse,
  idx,                 \* position of the running loop in its list
  scan,                \* what the collecting loop did to each entry
  stmts,               \* the statements sent to the engine in this run
  log,                 \* errors reported by logger.error / logger.critical
  exit_status,         \* how main ended: "none", "running", "finished", "exit1"
  before,              \* the committed graph when the run started
  prev,                \* the last run that committed: <<[fs, root, roots]>>,
                       \* roots being the roots of all committed runs
  failed_on_tree       \* a run rolled back on this tree since the last commit

vars == <<fs, edits, commits, db, tx, pc, repo_root_path, repo_internal_id,
          folders_to_add, files_to_add, folder_rels_to_add, file_rels_to_add,
          files_to_parse, idx, scan, stmts, log, exit_status, before, prev, failed_on_tree>>

lists == <<folders_to_add, files_to_add, folder_rels_to_add, file_rels_to_add>>
env == <<fs, edits>>

Stmt(op, path, ok) == [op |-> op, path |-> path, ok |-> ok]

\* one report of logger.error / logger.critical: who reports, and the cause
Report(level, at, cause) == [level |-> level, at |-> at, cause |-> cause]

Init ==
  /\ fs = InitialTree
  /\ edits = 0
  /\ commits = 0
  /\ db = EmptyGraph
  /\ tx = EmptyGraph
  /\ pc = "idle"
  /\ repo_root_path = NoPath
  /\ repo_internal_id = -1
  /\ folders_to_add = <<>>
  /\ files_to_add = <<>>
  /\ folder_rels_to_add = <<>>
  /\ file_rels_to_add = <<>>
  /\ files_to_parse = <<>>
  /\ idx = 1
  /\ scan = EmptyScan
  /\ stmts = <<>>
  /\ log = <<>>
  /\ exit_status = "none"
  /\ before = EmptyGraph
  /\ prev = <<>>
  /\ failed_on_tree = FALSE

\* the tree changes while no run is active: one entry is created, removed or
\* rewritten (a removed or replaced directory takes its entries with it)
Mutate(p, e) ==
  /\ pc = "idle"
  /\ edits < MaxEdits
  /\ commits < MaxCommits
  /\ e \in EntriesOf(p)
  /\ e # fs[p]
  /\ LET f == [q \in Paths |->
                 IF q = p THEN e
                 ELSE IF IsBelow(q, p) /\ e.kind # "dir" THEN Absent
                 ELSE fs[q]]
     IN WellFormed(f) /\ fs' = f
  /\ edits' = edits + 1
  /\ failed_on_tree' = FALSE
  /\ UNCHANGED <<commits, db, tx, pc, repo_root_path, repo_internal_id, lists,
                 files_to_parse, idx, scan, stmts, log, exit_status, before, prev>>

\* what a modelled root is on disk; the outer root is always a directory
RootKind(root) == IF root = RootPath THEN "dir" ELSE fs[root].kind

\* Path.is_dir() of a modelled root
RootIsDir(root) == RootKind(root) = "dir"

\* cli.main up to the call of process_directory.  A root that is a symbolic
\* link resolves to a path outside the modelled trees and is not drawn.
Main(root) ==
  /\ pc = "idle"
  /\ commits < MaxCommits
  /\ RootKind(root) # "symlink"
  /\ repo_root_path' = root
  /\ IF RootIsDir(root)
     THEN pc' = "begin" /\ exit_status' = "running" /\ log' = log
     ELSE /\ pc' = "done"
          /\ exit_status' = "exit1"
          /\ log' = Append(log, Report("critical", "main", "not a directory"))
  /\ UNCHANGED <<env, commits, db, tx, repo_internal_id, lists, files_to_parse,
                 idx, scan, stmts, before, prev, failed_on_tree>>

\* process_directory up to BEGIN TRANSACTION WRITE, which is outside the try:
\* an error here reaches main, which reports it and exits with status 1
Begin(ok) ==
  /\ pc = "begin"
  /\ IF ~RootIsDir(repo_root_path)
     THEN /\ pc' = "done"
          /\ exit_status' = "finished"
          /\ log' = Append(log, Report("error", "process_directory", "not a directory"))
          /\ stmts' = stmts
     ELSE /\ stmts' = Append(stmts, Stmt("BEGIN", NoPath, ok))
          /\ IF ok
             THEN pc' = "schema" /\ UNCHANGED <<exit_status, log>>
             ELSE /\ pc' = "done"
                  /\ exit_status' = "exit1"
                  /\ log' = Append(log, Report("critical", "main", "statement"))
  /\ UNCHANGED <<env, commits, db, tx, repo_root_path, repo_internal_id, lists,
                 files_to_parse, idx, scan, before, prev, failed_on_tree>>

\* an exception inside the try: reported, then the handler runs
Raise(cause) ==
  /\ pc' = "rollback"
  /\ log' = Append(log, Report("error", "process_directory", cause))

\* mutant: define_schema reports its error and returns, the run goes on
DefineSchema_Swallow(ok) ==
  /\ pc = "schema"
  /\ stmts' = Append(stmts, Stmt("DDL", NoPath, ok))
  /\ tx' = IF ok THEN define_schema(tx) ELSE tx
  /\ pc' = "repo_merge"
  /\ log' = IF ok THEN log
            ELSE Append(log, Report("error", "define_schema", "statement"))
  /\ UNCHANGED <<env, commits, db, repo_root_path, repo_internal_id, lists,
                 files_to_parse, idx, scan, exit_status, before, prev, failed_on_tree>>

\* define_schema(conn): an error is reported there and raised again
DefineSchema(ok) ==
  /\ pc = "schema"
  /\ stmts' = Append(stmts, Stmt("DDL", NoPath, ok))
  /\ IF ok
     THEN /\ tx' = define_schema(tx)
          /\ pc' = "repo_merge"
          /\ log' = log
     ELSE /\ tx' = tx
          /\ pc' = "rollback"
          /\ log' = log \o <<Report("error", "define_schema", "statement"),
                              Report("error", "process_directory", "statement")>>
  /\ UNCHANGED <<env, commits, db, repo_root_path, repo_internal_id, lists,
                 files_to_parse, idx, scan, exit_status, before, prev, failed_on_tree>>

\* conn.execute("MERGE (r:Repository {root_path: $path}) ... RETURN r.repo_id AS id")
RepoMerge(ok) ==
  /\ pc = "repo_merge"
  /\ stmts' = Append(stmts, Stmt("MERGE_REPO", repo_root_path, ok))
  /\ IF ok
     THEN /\ tx' = MergeRepository(tx, repo_root_path, Name(repo_root_path))
          /\ pc' = "repo_id"
          /\ log' = log
     ELSE tx' = tx /\ Raise("statement")
  /\ UNCHANGED <<env, commits, db, repo_root_path, repo_internal_id, lists,
                 files_to_parse, idx, scan, exit_status, before, prev, failed_on_tree>>


\* repo_id_result = conn.get_as_df(): the result of the MERGE was dropped and
\* the connection object is asked for it.  The engine's connection decides
\* what that call does: it has no such method ("AttributeError"), or it hands
\* back no row ("empty", the RuntimeError of the source), or the row of the
\* last statement ("row").
RepoId(outcome) ==
  /\ pc = "repo_id"
  /\ IF outcome = "row"
     THEN /\ repo_internal_id' = CHOOSE i \in RepositoryIds(tx, repo_root_path) : TRUE
          /\ pc' = "scan"
          /\ log' = log
     ELSE repo_internal_id' = repo_internal_id /\ Raise(outcome)
  /\ UNCHANGED <<env, commits, db, tx, repo_root_path, lists, files_to_parse, idx,
                 scan, stmts, exit_status, before, prev, failed_on_tree>>

\* mutant: the folder edges are written right after the folders
PhaseAfter_RelsFirst(phase, fo, fi, fr, ir) ==
  LET rank == CASE phase = "scan" -> 0 [] phase = "folders" -> 1
                [] phase = "folder_rels" -> 2 [] phase = "files" -> 3
                [] OTHER -> 4
  IN CASE rank < 1 /\ fo # <<>> -> "folders"
       [] rank < 2 /\ fr # <<>> -> "folder_rels"
       [] rank < 3 /\ fi # <<>> -> "files"
       [] rank < 4 /\ ir # <<>> -> "file_rels"
       [] OTHER -> "commit"

\* the loop that runs after `phase`: the first later one whose list is not empty
PhaseAfter(phase, fo, fi, fr, ir) ==
  LET rank == CASE phase = "scan" -> 0 [] phase = "folders" -> 1
                [] phase = "files" -> 2 [] phase = "folder_rels" -> 3
                [] OTHER -> 4
  IN CASE rank < 1 /\ fo # <<>> -> "folders"
       [] rank < 2 /\ fi # <<>> -> "files"
       [] rank < 3 /\ fr # <<>> -> "folder_rels"
       [] rank < 4 /\ ir # <<>> -> "file_rels"
       [] OTHER -> "commit"

\* lines 69-124: list the tree, then collect folders, files and pending edges
Scan(order, ok) ==
  /\ pc = "scan"
  /\ IF ok
     THEN LET acc == Collect(EmptyScan, all_paths(fs, repo_root_path, order), 1,
                             fs, repo_root_path, repo_internal_id)
          IN /\ scan' = acc
             /\ folders_to_add' = acc.folders
             /\ files_to_add' = acc.files
             /\ folder_rels_to_add' = acc.folder_rels
             /\ file_rels_to_add' = acc.file_rels
             /\ pc' = PhaseAfter("scan", acc.folders, acc.files,
                                 acc.folder_rels, acc.file_rels)
             /\ log' = log
     ELSE UNCHANGED <<scan, lists>> /\ Raise("scan")
  /\ idx' = 1
  /\ UNCHANGED <<env, commits, db, tx, repo_root_path, repo_internal_id,
                 files_to_parse, stmts, exit_status, before, prev, failed_on_tree>>

\* where a loop goes after item idx of a list of length n
Advance(phase, n) ==
  IF idx < n
  THEN pc' = phase /\ idx' = idx + 1
  ELSE /\ pc' = PhaseAfter(phase, folders_to_add, files_to_add,
                           folder_rels_to_add, file_rels_to_add)
       /\ idx' = 1

\* mutant: no transaction is open, every accepted Folder statement is
\* committed on its own
MergeFolderStep_AutoCommit(ok) ==
  /\ pc = "folders"
  /\ LET fd == folders_to_add[idx] IN
     /\ stmts' = Append(stmts, Stmt("MERGE_FOLDER", fd.path, ok))
     /\ IF ok
        THEN /\ tx' = MergeFolder(tx, fd)
             /\ db' = MergeFolder(tx, fd)
             /\ Advance("folders", Len(folders_to_add))
             /\ log' = log
        ELSE tx' = tx /\ db' = db /\ idx' = idx /\ Raise("statement")
  /\ UNCHANGED <<env, commits, repo_root_path, repo_internal_id, lists,
                 files_to_parse, scan, exit_status, before, prev, failed_on_tree>>

\* for folder_data in folders_to_add: MERGE (f:Folder {path: $path}) ...
MergeFolderStep(ok) ==
  /\ pc = "folders"
  /\ LET fd == folders_to_add[idx] IN
     /\ stmts' = Append(stmts, Stmt("MERGE_FOLDER", fd.path, ok))
     /\ IF ok
        THEN /\ tx' = MergeFolder(tx, fd)
             /\ Advance("folders", Len(folders_to_add))
             /\ log' = log
        ELSE tx' = tx /\ idx' = idx /\ Raise("statement")
  /\ UNCHANGED <<env, commits, db, repo_root_path, repo_internal_id, lists,
                 files_to_parse, scan, exit_status, before, prev, failed_on_tree>>

\* mutant: the stored hash is not compared
NeedsParsing_Always(rows, sha256) == TRUE

\* needs_parsing of lines 149-152: rows is the result of the MATCH on the path
NeedsParsing(rows, sha256) ==
  IF rows # {} THEN (CHOOSE h \in rows : TRUE) # sha256 ELSE TRUE

\* mutant: the File statements run outside the transaction, an accepted
\* upsert is committed at once
MergeFileStep_AutoCommit(accepted) ==
  /\ pc = "files"
  /\ LET fd == files_to_add[idx] IN
     /\ stmts' = stmts \o <<Stmt("MATCH_FILE", fd.path, accepted >= 1)>>
                       \o (IF accepted >= 1
                           THEN <<Stmt("MERGE_FILE", fd.path, accepted = 2)>>
                           ELSE <<>>)
     /\ IF accepted = 2
        THEN /\ tx' = MergeFile(tx, fd)
             /\ db' = MergeFile(db, fd)
             /\ files_to_parse' =
                  IF NeedsParsing(ExistingHashes(tx, fd.path), fd.sha256)
                  THEN Append(files_to_parse, fd.path)
                  ELSE files_to_parse
             /\ Advance("files", Len(files_to_add))
             /\ log' = log
        ELSE /\ tx' = tx
             /\ db' = db
             /\ files_to_parse' = files_to_parse
             /\ idx' = idx
             /\ Raise("statement")
  /\ UNCHANGED <<env, commits, repo_root_path, repo_internal_id, lists,
                 scan, exit_status, before, prev, failed_on_tree>>

\* for file_data in files_to_add: MATCH the stored hash, then MERGE the file;
\* accepted is the number of the two statements the engine accepts
MergeFileStep(accepted) ==
  /\ pc = "files"
  /\ LET fd == files_to_add[idx] IN
     /\ stmts' = stmts \o <<Stmt("MATCH_FILE", fd.path, accepted >= 1)>>
                       \o (IF accepted >= 1
                           THEN <<Stmt("MERGE_FILE", fd.path, accepted = 2)>>
                           ELSE <<>>)
     /\ IF accepted = 2
        THEN /\ tx' = MergeFile(tx, fd)
             /\ files_to_parse' =
                  IF NeedsParsing(ExistingHashes(tx, fd.path), fd.sha256)
                  THEN Append(files_to_parse, fd.path)
                  ELSE files_to_parse
             /\ Advance("files", Len(files_to_add))
             /\ log' = log
        ELSE /\ tx' = tx
             /\ files_to_parse' = files_to_parse
             /\ idx' = idx
             /\ Raise("statement")
  /\ UNCHANGED <<env, commits, db, repo_root_path, repo_internal_id, lists,
                 scan, exit_status, before, prev, failed_on_tree>>

\* the statement of lines 173-182 for one pending folder edge
FolderRelStatement(g, rel) ==
  IF rel[3] = "repo_folder"
  THEN MergeContains(g, "Repository", rel[1], "Folder", rel[2])
  ELSE IF rel[3] = "folder_folder"
  THEN MergeContains(g, "Folder", rel[1], "Folder", rel[2])
  ELSE g

\* for parent_path, child_path, rel_type in folder_rels_to_add
MergeFolderRelStep(ok) ==
  /\ pc = "folder_rels"
  /\ LET rel == folder_rels_to_add[idx] IN
     /\ stmts' = Append(stmts, Stmt("MERGE_REL", rel[2], ok))
     /\ IF ok
        THEN /\ tx' = FolderRelStatement(tx, rel)
             /\ Advance("folder_rels", Len(folder_rels_to_add))
             /\ log' = log
        ELSE tx' = tx /\ idx' = idx /\ Raise("statement")
  /\ UNCHANGED <<env, commits, db, repo_root_path, repo_internal_id, lists,
                 files_to_parse, scan, exit_status, before, prev, failed_on_tree>>

\* the statement of lines 186-189 for one pending file edge
FileRelStatement(g, rel) == MergeContains(g, "Folder", rel[1], "File", rel[2])

\* for parent_path, child_path in file_rels_to_add
MergeFileRelStep(ok) ==
  /\ pc = "file_rels"
  /\ LET rel == file_rels_to_add[idx] IN
     /\ stmts' = Append(stmts, Stmt("MERGE_REL", rel[2], ok))
     /\ IF ok
        THEN /\ tx' = FileRelStatement(tx, rel)
             /\ Advance("file_rels", Len(file_rels_to_add))
             /\ log' = log
        ELSE tx' = tx /\ idx' = idx /\ Raise("statement")
  /\ UNCHANGED <<env, commits, db, repo_root_path, repo_internal_id, lists,
                 files_to_parse, scan, exit_status, before, prev, failed_on_tree>>

\* conn.execute("COMMIT"); then process_directory returns and main reports
\* "Ingestion process finished."
Commit(ok) ==
  /\ pc = "commit"
  /\ stmts' = Append(stmts, Stmt("COMMIT", NoPath, ok))
  /\ IF ok
     THEN /\ db' = tx
          /\ commits' = commits + 1
          /\ pc' = "done"
          /\ exit_status' = "finished"
          /\ log' = log
     ELSE /\ db' = db
          /\ commits' = commits
          /\ exit_status' = exit_status
          /\ Raise("statement")
  /\ UNCHANGED <<env, tx, repo_root_path, repo_internal_id, lists,
                 files_to_parse, idx, scan, before, prev, failed_on_tree>>

\* mutant: the handler ends the transaction with COMMIT
Rollback_AsCommit(ok) ==
  /\ pc = "rollback"
  /\ stmts' = Append(stmts, Stmt("ROLLBACK", NoPath, ok))
  /\ db' = IF ok THEN tx ELSE db
  /\ log' = IF ok THEN log
            ELSE Append(log, Report("error", "rollback", "statement"))
  /\ pc' = "done"
  /\ exit_status' = "finished"
  /\ UNCHANGED <<env, commits, tx, repo_root_path, repo_internal_id, lists,
                 files_to_parse, idx, scan, before, prev, failed_on_tree>>

\* mutant: ROLLBACK without its own try: its failure leaves process_directory
\* and is what main reports
Rollback_Unguarded(ok) ==
  /\ pc = "rollback"
  /\ stmts' = Append(stmts, Stmt("ROLLBACK", NoPath, ok))
  /\ tx' = IF ok THEN db ELSE tx
  /\ log' = IF ok THEN log
            ELSE Append(log, Report("critical", "main", "statement"))
  /\ pc' = "done"
  /\ exit_status' = IF ok THEN "finished" ELSE "exit1"
  /\ UNCHANGED <<env, commits, db, repo_root_path, repo_internal_id, lists,
                 files_to_parse, idx, scan, before, prev, failed_on_tree>>

\* except Exception: conn.execute("ROLLBACK"), its own failure caught and
\* reported; nothing is raised again, process_directory returns None and main
\* reports "Ingestion process finished."
Rollback(ok) ==
  /\ pc = "rollback"
  /\ stmts' = Append(stmts, Stmt("ROLLBACK", NoPath, ok))
  /\ tx' = IF ok THEN db ELSE tx
  /\ log' = IF ok THEN log
            ELSE Append(log, Report("error", "rollback", "statement"))
  /\ pc' = "done"
  /\ exit_status' = "finished"
  /\ UNCHANGED <<env, commits, db, repo_root_path, repo_internal_id, lists,
                 files_to_parse, idx, scan, before, prev, failed_on_tree>>

\* an exception was raised inside the try of process_directory
Failed == \E i \in 1..Len(log) : log[i].at = "process_directory" /\ log[i].cause # "not a directory"

\* the run issued COMMIT and the engine accepted it
Committed ==
  /\ pc = "done"
  /\ stmts # <<>>
  /\ stmts[Len(stmts)] = Stmt("COMMIT", NoPath, TRUE)

\* the process ends: the connection and an unfinished transaction go with it
Exit ==
  /\ pc = "done"
  /\ pc' = "idle"
  /\ prev' = IF Committed
             THEN <<[fs |-> fs, root |-> repo_root_path,
                     roots |-> {repo_root_path} \cup
                               (IF prev = <<>> THEN {} ELSE prev[1].roots)]>>
             ELSE prev
  /\ failed_on_tree' = IF Committed THEN FALSE
                       ELSE IF Failed THEN TRUE ELSE failed_on_tree
  /\ tx' = db
  /\ before' = db
  /\ repo_root_path' = NoPath
  /\ repo_internal_id' = -1
  /\ folders_to_add' = <<>>
  /\ files_to_add' = <<>>
  /\ folder_rels_to_add' = <<>>
  /\ file_rels_to_add' = <<>>
  /\ files_to_parse' = <<>>
  /\ idx' = 1
  /\ scan' = EmptyScan
  /\ stmts' = <<>>
  /\ log' = <<>>
  /\ exit_status' = "none"
  /\ UNCHANGED <<env, commits, db>>

Next ==
  \/ \E p \in Paths : \E e \in EntriesOf(p) : Mutate(p, e)
  \/ \E root \in Roots : Main(root)
  \/ \E ok \in BOOLEAN : Begin(ok)
  \/ \E ok \in BOOLEAN : DefineSchema(ok)
  \/ \E ok \in BOOLEAN : RepoMerge(ok)
  \/ \E outcome \in {"AttributeError", "empty", "row"} : RepoId(outcome)
  \/ \E order \in ScanOrders : \E ok \in BOOLEAN : Scan(order, ok)
  \/ \E ok \in BOOLEAN : MergeFolderStep(ok)
  \/ \E accepted \in 0..2 : MergeFileStep(accepted)
  \/ \E ok \in BOOLEAN : MergeFolderRelStep(ok)
  \/ \E ok \in BOOLEAN : MergeFileRelStep(ok)
  \/ \E ok \in BOOLEAN : Commit(ok)
  \/ \E ok \in BOOLEAN : Rollback(ok)
  \/ Exit

Spec == Init /\ [][Next]_vars


\* ---- process_directory as a function of the graph, the tree and the order ----
\* the four loops of lines 134-189, each over its pending list
RECURSIVE MergeFolders(_, _, _)
MergeFolders(g, list, k) ==
  IF k > Len(list) THEN g ELSE MergeFolders(MergeFolder(g, list[k]), list, k + 1)

RECURSIVE MergeFiles(_, _, _)
MergeFiles(g, list, k) ==
  IF k > Len(list) THEN g ELSE MergeFiles(MergeFile(g, list[k]), list, k + 1)

RECURSIVE MergeFolderRels(_, _, _)
MergeFolderRels(g, list, k) ==
  IF k > Len(list) THEN g
  ELSE MergeFolderRels(FolderRelStatement(g, list[k]), list, k + 1)

RECURSIVE MergeFileRels(_, _, _)
MergeFileRels(g, list, k) ==
  IF k > Len(list) THEN g
  ELSE MergeFileRels(FileRelStatement(g, list[k]), list, k + 1)

\* what a run without a failure commits and hands to the parser, when it
\* starts from graph g, reads tree f and rglob yields the entries in order
process_directory(g, f, root, order) ==
  LET g1 == MergeRepository(define_schema(g), root, Name(root))
      rid == CHOOSE i \in RepositoryIds(g1, root) : TRUE
      acc == Collect(EmptyScan, all_paths(f, root, order), 1, f, root, rid)
      g2 == MergeFolders(g1, acc.folders, 1)
      g3 == MergeFiles(g2, acc.files, 1)
      g4 == MergeFolderRels(g3, acc.folder_rels, 1)
      g5 == MergeFileRels(g4, acc.file_rels, 1)
  IN [graph |-> g5,
      files_to_parse |->
        {acc.files[i].path : i \in {j \in 1..Len(acc.files) :
           NeedsParsing(ExistingHashes(g2, acc.files[j].path), acc.files[j].sha256)}}]

\* ---- vocabulary of the properties ----
InRun == pc # "idle"

Issued(op, p) == \E i \in 1..Len(stmts) : stmts[i].op = op /\ stmts[i].path = p
Accepted(op, p) ==
  \E i \in 1..Len(stmts) : stmts[i].op = op /\ stmts[i].path = p /\ stmts[i].ok
CountOp(op) == Cardinality({i \in 1..Len(stmts) : stmts[i].op = op})
InList(p, list) == \E i \in 1..Len(list) : list[i] = p

FolderNodes(g, p) == {n \in g.folders : n.path = p}
FileNodes(g, p) == {n \in g.files : n.path = p}
EdgesInto(g, label, p) == {e \in g.edges : e.dst \in MatchNodes(g, label, p)}

\* the directories and the regular files of the tree below the scan root
DirsBelow(root) == {p \in Paths : IsBelow(p, root) /\ fs[p].kind = "dir"}
FilesBelow(root) == {p \in Paths : IsBelow(p, root) /\ fs[p].kind = "file"}
ReadableBelow(root) == {p \in FilesBelow(root) : fs[p].fault = "none"}
LinksBelow(root) == {p \in Paths : IsBelow(p, root) /\ fs[p].kind = "symlink"}
\* the regular files below the root whose bytes cannot be read
UnhashableBelow(root) == {p \in FilesBelow(root) : fs[p].fault = "hash"}

\* the run repeats the last committed run: same tree, same root
Repeats == prev # <<>> /\ prev[1].fs = fs /\ prev[1].root = repo_root_path

\* C1: a run that commits on the tree and root of the last committed run adds
\* no node and no edge: the committed graph is the graph from before the run.
C1_Idempotence == (Committed /\ Repeats) => db = before

C1_Witness ==
  /\ Committed /\ Repeats
  /\ db.folders # {} /\ db.files # {} /\ db.edges # {}
  /\ CountOp("MERGE_REL") >= 2

\* C2: one committed run from the empty graph leaves exactly one Folder node
\* per directory below the root, exactly one File node per readable regular
\* file below the root, and no Folder or File node for any other path.
C2_Convergence ==
  (Committed /\ before = EmptyGraph) =>
    \A p \in Paths :
      /\ Cardinality(FolderNodes(db, p)) =
           (IF p \in DirsBelow(repo_root_path) THEN 1 ELSE 0)
      /\ Cardinality(FileNodes(db, p)) =
           (IF p \in ReadableBelow(repo_root_path) THEN 1 ELSE 0)

C2_Witness ==
  /\ Committed /\ before = EmptyGraph /\ repo_root_path = RootPath
  /\ DirsBelow(RootPath) = {SubRoot, DirE}
  /\ ReadableBelow(RootPath) = {FileB}
  /\ fs[FileA].kind = "file"
  /\ Cardinality(db.folders) = 2 /\ Cardinality(db.files) = 1

\* the node of the immediate parent of p in a run with the given scan root
ParentRefs(g, p, root) ==
  IF Parent(p) = root THEN MatchNodes(g, "Repository", root)
  ELSE MatchNodes(g, "Folder", Parent(p))

HasParentEdge(g, label, p, root) ==
  \A child \in MatchNodes(g, label, p) :
    \E e \in g.edges : e.dst = child /\ e.src \in ParentRefs(g, p, root)

\* C3: after a committed run every Folder and File node observed in the run
\* has a CONTAINS edge from the node of its immediate parent: the Repository
\* node when the parent is the scan root, the parent's Folder node otherwise.
C3_ParentEdges ==
  Committed =>
    /\ \A i \in 1..Len(folders_to_add) :
         HasParentEdge(db, "Folder", folders_to_add[i].path, repo_root_path)
    /\ \A i \in 1..Len(files_to_add) :
         HasParentEdge(db, "File", files_to_add[i].path, repo_root_path)

\* C4: in a committed run a readable file is in files_to_parse exactly when it
\* had no File node before the run or its stored digest differs from the new
\* one; afterwards the stored digest is the new one; a file read with the same
\* content in the last committed run is not in the list.
C4_ChangeDetection ==
  Committed =>
    \A p \in ReadableBelow(repo_root_path) :
      LET new == Sha256(fs[p].content) IN
      /\ InList(p, files_to_parse) <=>
           (FileNodes(before, p) = {} \/ \A n \in FileNodes(before, p) : n.sha256 # new)
      /\ FileNodes(db, p) # {}
      /\ \A n \in FileNodes(db, p) : n.sha256 = new
      /\ (/\ prev # <<>>
          /\ IsBelow(p, prev[1].root)
          /\ prev[1].fs[p] = fs[p]) => ~InList(p, files_to_parse)

C4_Witness ==
  /\ Committed /\ prev # <<>>
  /\ \E p \in ReadableBelow(repo_root_path) :
       /\ FileNodes(before, p) # {}
       /\ \A n \in FileNodes(before, p) : n.sha256 # Sha256(fs[p].content)
       /\ InList(p, files_to_parse)
  /\ \E q \in ReadableBelow(repo_root_path) :
       /\ FileNodes(before, q) # {}
       /\ ~InList(q, files_to_parse)

\* C5: when a step inside the transaction raises, the committed graph stays
\* the one from before the run, and the run has issued ROLLBACK when it ends.
C5_Atomicity ==
  /\ Failed => db = before
  /\ (pc = "done" /\ Failed) => CountOp("ROLLBACK") = 1

C5_Witness ==
  /\ pc = "done" /\ Failed
  /\ Accepted("MERGE_FOLDER", SubRoot) /\ Accepted("MERGE_FILE", FileB)
  /\ \E i \in 1..Len(stmts) : stmts[i].op = "MERGE_REL" /\ ~stmts[i].ok
  /\ before.folders # {}

\* C6: when a step inside the transaction raises, main ends with the failure
\* outcome (exit status 1), not as a finished ingestion.
C6_FailurePropagates == (pc = "done" /\ Failed) => exit_status = "exit1"

\* a run in which the engine accepted every statement, the listing of the
\* tree did not raise and get_as_df did not come back without a row
CleanRun ==
  /\ pc = "done"
  /\ stmts # <<>>
  /\ \A i \in 1..Len(stmts) : stmts[i].ok
  /\ \A i \in 1..Len(log) : log[i].cause \notin {"scan", "empty", "statement"}

\* C7: in such a run there is exactly one BEGIN, exactly one COMMIT, which
\* comes last, no ROLLBACK, and the repository identifier was obtained.
C7_CommitOnSuccess ==
  CleanRun =>
    /\ CountOp("BEGIN") = 1 /\ stmts[1].op = "BEGIN"
    /\ CountOp("COMMIT") = 1 /\ stmts[Len(stmts)].op = "COMMIT"
    /\ CountOp("ROLLBACK") = 0
    /\ repo_internal_id \in RepositoryIds(db, repo_root_path)

\* C8: when a CONTAINS edge statement is issued, the Folder upsert of every
\* collected folder and the File upsert of every collected file of the run
\* have been accepted, and no node upsert follows an edge statement.
C8_NodesBeforeEdges ==
  (CountOp("MERGE_REL") > 0) =>
    /\ \A i \in 1..Len(folders_to_add) : Accepted("MERGE_FOLDER", folders_to_add[i].path)
    /\ \A i \in 1..Len(files_to_add) : Accepted("MERGE_FILE", files_to_add[i].path)
    /\ \A i, j \in 1..Len(stmts) :
         (i < j /\ stmts[i].op = "MERGE_REL") =>
           stmts[j].op \notin {"MERGE_FOLDER", "MATCH_FILE", "MERGE_FILE"}

C8_Witness ==
  /\ Committed
  /\ Len(folders_to_add) = 2 /\ Len(files_to_add) = 2
  /\ CountOp("MERGE_REL") = 4

\* C9: a symbolic link below the scan root is skipped before it is classified,
\* stat-ed or hashed; the run issues no statement for its path, and the Folder
\* nodes, File nodes and CONTAINS edges into its path stay as they were.
C9_SymlinkExclusion ==
  InRun =>
    \A p \in LinksBelow(repo_root_path) :
      /\ p \notin scan.classified \cup scan.stat_calls \cup scan.hash_calls
      /\ \A i \in 1..Len(stmts) : stmts[i].path # p
      /\ FolderNodes(tx, p) = FolderNodes(before, p)
      /\ FileNodes(tx, p) = FileNodes(before, p)
      /\ EdgesInto(tx, "Folder", p) = EdgesInto(before, "Folder", p)
      /\ EdgesInto(tx, "File", p) = EdgesInto(before, "File", p)
      /\ FolderNodes(db, p) = FolderNodes(before, p)
      /\ FileNodes(db, p) = FileNodes(before, p)

C9_Witness ==
  /\ Committed /\ repo_root_path = RootPath
  /\ fs[FileA].kind = "symlink" /\ FileA \in scan.skipped
  /\ FileNodes(db, FileA) = {}
  /\ Cardinality(db.files) = 1 /\ Cardinality(db.folders) = 2

\* C10: a file whose hash could not be computed gets no File upsert and no
\* edge upsert, is not in files_to_parse, keeps the File node it had; the run
\* still commits the folders and the readable files.
C10_UnreadableFile ==
  Committed =>
    \A p \in UnhashableBelow(repo_root_path) :
      /\ p \in scan.hash_errors
      /\ ~Issued("MATCH_FILE", p) /\ ~Issued("MERGE_FILE", p) /\ ~Issued("MERGE_REL", p)
      /\ ~InList(p, files_to_parse)
      /\ FileNodes(db, p) = FileNodes(before, p)
      /\ \A q \in DirsBelow(repo_root_path) : FolderNodes(db, q) # {}
      /\ \A q \in ReadableBelow(repo_root_path) :
           \E n \in FileNodes(db, q) : n.sha256 = Sha256(fs[q].content)

C10_Witness ==
  /\ Committed
  /\ FileA \in UnhashableBelow(repo_root_path)
  /\ FileNodes(before, FileA) # {}
  /\ Accepted("MERGE_FILE", FileB)
  /\ Accepted("MERGE_FOLDER", SubRoot)

\* the regular files below the root on which stat() raises OSError
StatFaultBelow(root) == {p \in FilesBelow(root) : fs[p].fault = "stat"}

\* the collecting loop is over and nothing has raised since
Collected ==
  pc \in {"folders", "files", "folder_rels", "file_rels", "commit"}
  \/ Committed

\* C11: an entry on which stat() raises is caught inside the loop: it enters
\* no pending list and no statement is issued for its path; every directory
\* and every readable file below the root is still collected; the error
\* itself does not send the run to the rollback, and the run can commit.
C11_EntryErrorLocal ==
  /\ Collected =>
       \A p \in StatFaultBelow(repo_root_path) :
         /\ p \in scan.os_errors
         /\ \A i \in 1..Len(files_to_add) : files_to_add[i].path # p
         /\ \A i \in 1..Len(file_rels_to_add) : file_rels_to_add[i][2] # p
         /\ \A i \in 1..Len(stmts) : stmts[i].path # p
         /\ FileNodes(tx, p) = FileNodes(before, p)
         /\ \A q \in DirsBelow(repo_root_path) :
              \E i \in 1..Len(folders_to_add) : folders_to_add[i].path = q
         /\ \A q \in ReadableBelow(repo_root_path) :
              \E i \in 1..Len(files_to_add) : files_to_add[i].path = q
  /\ (pc = "rollback" /\ Len(stmts) = 3 /\ \A i \in 1..3 : stmts[i].ok) =>
       log[Len(log)].cause \in {"AttributeError", "empty", "scan"}
  /\ (pc = "done" /\ stmts # <<>> /\ log = <<>>) => Committed

C11_Witness ==
  /\ Committed /\ repo_root_path = RootPath
  /\ FileA \in StatFaultBelow(repo_root_path) /\ FileA \in scan.os_errors
  /\ Accepted("MERGE_FOLDER", SubRoot) /\ Accepted("MERGE_FOLDER", DirE)
  /\ Accepted("MERGE_FILE", FileB)
  /\ Cardinality(db.files) = 1

\* the roots of the runs that have committed, the current run included
Ingested ==
  (IF prev = <<>> THEN {} ELSE prev[1].roots)
    \cup (IF Committed THEN {repo_root_path} ELSE {})

RepositoryNodes(g, root) == {r \in g.repos : r.root_path = root}

\* C12: the committed graph holds exactly one Repository node for every root
\* some committed run was given and none for any other root; a run keeps the
\* identifier of every Repository node that was there before it, and a
\* committed run leaves the node of its root named after the directory.
C12_RepositoryReuse ==
  /\ \A root \in Roots :
       Cardinality(RepositoryNodes(db, root)) = (IF root \in Ingested THEN 1 ELSE 0)
  /\ \A r \in before.repos :
       \E m \in db.repos : m.repo_id = r.repo_id /\ m.root_path = r.root_path
  /\ \A r, m \in db.repos : r.repo_id = m.repo_id => r = m
  /\ Committed =>
       \A r \in RepositoryNodes(db, repo_root_path) : r.name = Name(repo_root_path)

C12_Witness ==
  /\ Committed
  /\ prev # <<>> /\ repo_root_path \in prev[1].roots
  /\ CountOp("MERGE_REPO") = 1
  /\ Cardinality(db.repos) = 1
  /\ RepositoryIds(db, repo_root_path) = RepositoryIds(before, repo_root_path)
  /\ RepositoryIds(before, repo_root_path) # {}

\* no two nodes of a table share a path, no two edges share both endpoints
NoDuplicates(g) ==
  /\ \A n, m \in g.folders : n.path = m.path => n = m
  /\ \A n, m \in g.files : n.path = m.path => n = m
  /\ \A e, d \in g.edges : (e.src = d.src /\ e.dst = d.dst) => e = d

\* C13: whatever trees and roots the runs were given, the committed graph and
\* the graph of the open transaction hold at most one Folder node per path,
\* at most one File node per path and at most one CONTAINS edge per pair of
\* parent node and child node.
C13_NoDuplicates == NoDuplicates(db) /\ NoDuplicates(tx)

C13_Witness ==
  /\ Committed /\ commits = 2 /\ edits = 1
  /\ prev # <<>> /\ prev[1].root # repo_root_path /\ prev[1].fs # fs
  /\ FolderNodes(before, DirE) # {} /\ FileNodes(before, FileB) # {}
  /\ Accepted("MERGE_FOLDER", DirE) /\ Accepted("MERGE_FILE", FileB)
  /\ \E i \in 1..Len(stmts) : stmts[i].op = "MERGE_REL" /\ stmts[i].path = FileB /\ stmts[i].ok

\* every node of g is in h under the same identifier and key, and every edge
\* of g is in h
Kept(g, h) ==
  /\ \A r \in g.repos :
       \E m \in h.repos : m.repo_id = r.repo_id /\ m.root_path = r.root_path
  /\ \A n \in g.folders :
       \E m \in h.folders : m.folder_id = n.folder_id /\ m.path = n.path
  /\ \A n \in g.files :
       \E m \in h.files : m.file_id = n.file_id /\ m.path = n.path
  /\ g.edges \subseteq h.edges

\* C14: every node and every CONTAINS edge of the committed graph from before
\* the run is in the committed graph at every point of the run and after it,
\* whether the run commits or rolls back and whether or not the path of the
\* node still exists in the tree.
C14_NoDeletion == Kept(before, db)

C14_Witness ==
  /\ Committed /\ repo_root_path = RootPath
  /\ fs[FileB].kind = "absent"
  /\ FileNodes(before, FileB) # {} /\ FileNodes(db, FileB) = FileNodes(before, FileB)
  /\ EdgesInto(before, "File", FileB) # {}
  /\ EdgesInto(db, "File", FileB) = EdgesInto(before, "File", FileB)
  /\ Accepted("MERGE_FILE", FileA)

\* the run ended and its ROLLBACK raised
RollbackRaised ==
  /\ pc = "done"
  /\ \E i \in 1..Len(stmts) : stmts[i].op = "ROLLBACK" /\ ~stmts[i].ok

\* C15: when ROLLBACK raises, its error is caught and reported by the handler
\* as the last report of the run, after the report of the error that caused
\* the rollback; nothing leaves process_directory, so main reports no error
\* of the rollback, and the committed graph is the one from before the run.
C15_RollbackFailure ==
  RollbackRaised =>
    /\ Len(log) >= 2
    /\ log[Len(log)] = Report("error", "rollback", "statement")
    /\ log[Len(log) - 1].at = "process_directory"
    /\ log[Len(log) - 1].cause # "not a directory"
    /\ \A i \in 1..(Len(log) - 1) : log[i].at # "rollback"
    /\ \A i \in 1..Len(log) : log[i].at # "main"
    /\ db = before

C15_Witness ==
  /\ RollbackRaised
  /\ \E i \in 1..Len(stmts) : stmts[i].op = "MERGE_FILE" /\ ~stmts[i].ok
  /\ Accepted("MERGE_FOLDER", SubRoot)
  /\ Len(log) = 2

\* the graph holds everything the run collected: the node of every collected
\* folder and file, and every edge statement of the run was accepted
FullyUpdated(g) ==
  /\ \A i \in 1..Len(folders_to_add) :
       \E n \in FolderNodes(g, folders_to_add[i].path) :
         n.depth = folders_to_add[i].depth
  /\ \A i \in 1..Len(files_to_add) :
       \E n \in FileNodes(g, files_to_add[i].path) :
         n.sha256 = files_to_add[i].sha256
  /\ Cardinality({i \in 1..Len(stmts) : stmts[i].op = "MERGE_REL" /\ stmts[i].ok})
       = Len(folder_rels_to_add) + Len(file_rels_to_add)

\* C16: what another connection reads, the committed graph, is at every point
\* of a run either the graph from before the run or, once COMMIT has been
\* accepted, the graph of the transaction with all the upserts of the run; it
\* differs from the graph from before the run only after the COMMIT step.
C16_NoPartialCommit ==
  \/ db = before
  \/ (Committed /\ db = tx /\ FullyUpdated(db))

C16_Witness ==
  /\ pc = "file_rels" /\ idx = 2
  /\ before.folders # {}
  /\ db = before
  /\ tx.files # db.files /\ tx.edges # db.edges
  /\ ~FullyUpdated(db)

\* the natural key of the node a reference points to
KeyOf(g, ref) ==
  CASE ref[1] = "Repository" ->
         <<ref[1], (CHOOSE r \in g.repos : r.repo_id = ref[2]).root_path>>
    [] ref[1] = "Folder" ->
         <<ref[1], (CHOOSE n \in g.folders : n.folder_id = ref[2]).path>>
    [] OTHER ->
         <<ref[1], (CHOOSE n \in g.files : n.file_id = ref[2]).path>>

\* the graph without its surrogate identifiers: nodes by natural key and
\* attributes, the owner by its root path, edges by the keys of their ends
UpToIds(g) ==
  LET owner(id) == {r.root_path : r \in {x \in g.repos : x.repo_id = id}} IN
  [repos |-> {<<r.root_path, r.name>> : r \in g.repos},
   folders |-> {<<n.path, n.depth, owner(n.repo_id)>> : n \in g.folders},
   files |-> {<<n.path, n.lang, n.sha256, n.size, owner(n.repo_id)>> : n \in g.files},
   edges |-> {<<KeyOf(g, e.src), KeyOf(g, e.dst)>> : e \in g.edges},
   schema |-> g.schema]

ParseSet == {files_to_parse[i] : i \in 1..Len(files_to_parse)}

\* C17 as stated: a committed run leaves the graph and the set of changed
\* files that process_directory yields for every order of the scan.
C17_OrderIndependence ==
  Committed =>
    \A o \in ScanOrders :
      /\ db = process_directory(before, fs, repo_root_path, o).graph
      /\ ParseSet = process_directory(before, fs, repo_root_path, o).files_to_parse

\* C17, amended: for every order of the scan the committed graph is the same
\* up to the surrogate identifiers the engine assigns (same nodes by natural
\* key with the same attributes and owner, same edges between the same keys),
\* and the set of changed files is the same.
C17_OrderIndependenceUpToIds ==
  Committed =>
    \A o \in ScanOrders :
      /\ UpToIds(db) = UpToIds(process_directory(before, fs, repo_root_path, o).graph)
      /\ ParseSet = process_directory(before, fs, repo_root_path, o).files_to_parse

C17_Witness ==
  /\ Committed /\ repo_root_path = RootPath
  /\ before # EmptyGraph /\ prev # <<>> /\ prev[1].fs # fs
  /\ Len(folders_to_add) = 2 /\ Len(files_to_add) = 2
  /\ ParseSet # {}
  /\ \E o1, o2 \in ScanOrders :
       process_directory(before, fs, repo_root_path, o1).graph
         # process_directory(before, fs, repo_root_path, o2).graph

\* every table and index of define_schema is declared in g
Declared(g) ==
  /\ \A i \in 1..Len(SchemaStatements) :
       LET st == SchemaStatements[i] IN
       CASE st.kind = "node" -> st.name \in g.schema.node_tables
         [] st.kind = "index" -> <<st.name, st.from>> \in g.schema.indexes
         [] OTHER -> \E r \in g.schema.rel_tables : r.name = st.name

\* C18: on a database in which every table and index is declared, the
\* statements of define_schema, once accepted, leave the graph of the
\* transaction equal to the committed one: same tables, same attributes, same
\* nodes and edges; define_schema reports an error only when the engine
\* rejected a statement, and running it once more changes nothing either.
C18_SchemaIdempotence ==
  /\ (pc = "repo_merge" /\ Declared(before)) => tx = before
  /\ Declared(db) => define_schema(db) = db
  /\ Declared(tx) => define_schema(tx) = tx
  /\ (\E i \in 1..Len(log) : log[i].at = "define_schema") =>
       stmts[Len(stmts) - (IF pc = "done" THEN 1 ELSE 0)] = Stmt("DDL", NoPath, FALSE)

C18_Witness ==
  /\ pc = "repo_merge"
  /\ Declared(before)
  /\ before.folders # {} /\ before.files # {} /\ before.edges # {}
  /\ stmts[Len(stmts)] = Stmt("DDL", NoPath, TRUE)
  /\ tx = before

\* the statements that read or write nodes and edges
DataOps == {"MERGE_REPO", "MERGE_FOLDER", "MATCH_FILE", "MERGE_FILE", "MERGE_REL"}

\* C19: every data statement of a run comes after the statements of
\* define_schema, all accepted; a run in which define_schema raised has
\* issued no data statement and is in its error handling.
C19_SchemaFirst ==
  /\ \A i \in 1..Len(stmts) :
       stmts[i].op \in DataOps =>
         \E j \in 1..(i - 1) : stmts[j] = Stmt("DDL", NoPath, TRUE)
  /\ (\E j \in 1..Len(stmts) : stmts[j] = Stmt("DDL", NoPath, FALSE)) =>
       /\ \A i \in 1..Len(stmts) : stmts[i].op \notin DataOps
       /\ pc \in {"rollback", "done"}
       /\ tx = before
  /\ CountOp("DDL") <= 1

C19_Witness ==
  /\ pc = "done"
  /\ CountOp("DDL") = 1 /\ stmts[2] = Stmt("DDL", NoPath, FALSE)
  /\ before.files # {}
  /\ \E i \in 1..Len(log) : log[i].at = "define_schema"

\* the endpoints the statement of a pending folder edge looks up
FolderRelParents(g, rel) ==
  MatchNodes(g, IF rel[3] = "repo_folder" THEN "Repository" ELSE "Folder", rel[1])

\* C20: when the statement of a pending edge is about to execute, the graph
\* of the transaction holds the parent under the label and key the statement
\* matches on, and the child: the statement binds at least one pair.
C20_EdgeEndpointsExist ==
  /\ pc = "folder_rels" =>
       LET rel == folder_rels_to_add[idx] IN
       /\ FolderRelParents(tx, rel) # {}
       /\ MatchNodes(tx, "Folder", rel[2]) # {}
  /\ pc = "file_rels" =>
       LET rel == file_rels_to_add[idx] IN
       /\ MatchNodes(tx, "Folder", rel[1]) # {}
       /\ MatchNodes(tx, "File", rel[2]) # {}

\* the endpoint labels of the edge statements of process_directory
WrittenPairs == {<<"Repository", "Folder">>, <<"Folder", "Folder">>, <<"Folder", "File">>}

\* the CONTAINS table of the schema is declared from label a to label b
Admits(sch, a, b) == [name |-> "CONTAINS", from |-> a, to |-> b] \in sch.rel_tables

\* C21: once define_schema has run on an empty database, the CONTAINS table
\* admits Repository to Folder, Folder to Folder and Folder to File, and every
\* edge of the transaction joins labels the table admits.
C21_SchemaCoversEdges ==
  /\ (pc = "repo_merge" /\ before = EmptyGraph) =>
       \A pair \in WrittenPairs : Admits(tx.schema, pair[1], pair[2])
  /\ \A e \in tx.edges : Admits(tx.schema, e.src[1], e.dst[1])

\* C22: after a committed run with root R every directory below R has a
\* Folder node whose depth is the number of segments of its path below R and
\* whose repo_id is the identifier of the Repository node of R, and every
\* readable file below R has a File node with that repo_id, whatever the
\* nodes held before the run.
C22_DepthOwnerRefreshed ==
  Committed =>
    /\ RepositoryIds(db, repo_root_path) = {repo_internal_id}
    /\ \A p \in DirsBelow(repo_root_path) :
         /\ FolderNodes(db, p) # {}
         /\ \A n \in FolderNodes(db, p) :
              /\ n.depth = Len(p) - Len(repo_root_path)
              /\ n.repo_id = repo_internal_id
    /\ \A p \in ReadableBelow(repo_root_path) :
         /\ FileNodes(db, p) # {}
         /\ \A n \in FileNodes(db, p) : n.repo_id = repo_internal_id

C22_Witness ==
  /\ Committed /\ repo_root_path = SubRoot
  /\ \E n \in FolderNodes(before, DirE) : n.depth = 2 /\ n.repo_id # repo_internal_id
  /\ \E n \in FolderNodes(db, DirE) : n.depth = 1 /\ n.repo_id = repo_internal_id
  /\ \E n \in FileNodes(before, FileB) : n.repo_id # repo_internal_id
  /\ \E n \in FileNodes(db, FileB) : n.repo_id = repo_internal_id

\* p was a readable file below the root of the last committed run
SeenByLastCommit(p) ==
  /\ prev # <<>>
  /\ IsBelow(p, prev[1].root)
  /\ prev[1].fs[p].kind = "file" /\ prev[1].fs[p].fault = "none"

\* C23: a run that rolls back leaves every stored File node as it was; while
\* runs have rolled back since the last commit, the stored digest of a file
\* that commit saw is the digest of its content then; and the run that
\* commits after them lists every readable file whose content is not the one
\* of the last committed run, or whose digest is not the stored one.
C23_ChangeNotLost ==
  /\ (pc = "done" /\ Failed) =>
       \A p \in Paths : FileNodes(db, p) = FileNodes(before, p)
  /\ failed_on_tree =>
       \A p \in Paths :
         SeenByLastCommit(p) =>
           ExistingHashes(before, p) = {Sha256(prev[1].fs[p].content)}
  /\ (Committed /\ failed_on_tree) =>
       \A p \in ReadableBelow(repo_root_path) :
         /\ (SeenByLastCommit(p) /\ prev[1].fs[p].content # fs[p].content) =>
              InList(p, files_to_parse)
         /\ Sha256(fs[p].content) \notin ExistingHashes(before, p) =>
              InList(p, files_to_parse)

C23_Witness ==
  /\ Committed /\ failed_on_tree
  /\ SeenByLastCommit(FileB) /\ FileB \in ReadableBelow(repo_root_path)
  /\ prev[1].fs[FileB].content # fs[FileB].content
  /\ ExistingHashes(before, FileB) = {Sha256(prev[1].fs[FileB].content)}
  /\ ExistingHashes(db, FileB) = {Sha256(fs[FileB].content)}
  /\ InList(FileB, files_to_parse)

====
